---- MODULE Spec2Model ----
(***************************************************************************)
(* A model of the ray caster in src/main.rs: ray generation, sphere and    *)
(* plane intersection, Lambertian shading, colour arithmetic and the       *)
(* render loop of Scene::render.                                           *)
(*                                                                         *)
(* Numbers.  The program computes in f64, and so does the model: an f64 is *)
(* the record [c, s, m, e] of its class c ("fin", "inf" or "nan"), its     *)
(* sign s (1 or -1), its significand m and the exponent e of the           *)
(* significand's last place.  A finite number has the value                *)
(*     s * (m[1] * 2^30 + m[2]) * 2^e                                       *)
(* where the significand m = <<hi, lo>> is a double word of two 30-bit     *)
(* words, below 2^53; it is at least 2^52 unless e = -1074 (subnormal      *)
(* numbers and zero, which is [c |-> "fin", m |-> <<0, 0>>, e |-> -1074]   *)
(* with either sign).  Every operation (+, -, *, /, sqrt) gives the f64    *)
(* nearest to the exact result, ties to the even significand, as the       *)
(* hardware does, so that every comparison the program makes (hit or miss, *)
(* denom > 1e-6, distance >= 0) and every value it computes is the         *)
(* program's own, bit for bit.  Vectors and points are triples of f64 and  *)
(* follow cgmath: v.dot(w) is (v.x * w.x + v.y * w.y) + v.z * w.z and      *)
(* v.normalize() is v * (1.0 / v.dot(v).sqrt()).                           *)
(***************************************************************************)
EXTENDS Integers, Sequences, FiniteSets

VARIABLES
    scene,    \* the Scene being rendered: [width, height, objects, light]
    x, y,     \* the loop variables of Scene::render
    oi,       \* the position of the object iterator (1-based)
    ray,      \* the primary ray of the current pixel
    image,    \* the raster: pixel <<x, y>> |-> <<r, g, b>>
    pc,       \* where render stands
    tests,    \* the number of intersection tests made so far
    trace,    \* the pixels started so far, in order
    shaded,   \* the f64 colour last handed to rgbf64_to_rgb8
    fn, arg, res    \* a single call of a pure function: name, input, result

vars == <<scene, x, y, oi, ray, image, pc, tests, trace, shaded, fn, arg, res>>

renderVars == <<scene, x, y, oi, ray, image, pc, tests, trace, shaded>>
fnVars == <<fn, arg, res>>

(***************************************************************************)
(* Whole numbers of up to 120 bits in words of 30 bits, on 32-bit          *)
(* integers.                                                               *)
(***************************************************************************)
\* The numeric helpers are functions, not operators, so that their arguments are
\* values when the body is evaluated.
Max[a \in Int, b \in Int] == IF a >= b THEN a ELSE b
Min[a \in Int, b \in Int] == IF a <= b THEN a ELSE b
Abs[a \in Int] == IF a >= 0 THEN a ELSE -a
Sgn[a \in Int] == IF a < 0 THEN -1 ELSE 1

\* A double word <<hi, lo>> stands for hi * Word + lo, with 0 <= lo < Word; a
\* quad word <<w3, w2, w1, w0>> for ((w3 * Word + w2) * Word + w1) * Word + w0.
HalfWord == 2^15
Word == 2^30
DWord == Nat \X Nat
QWord == Nat \X Nat \X Nat \X Nat
DZero == <<0, 0>>
QZero == <<0, 0, 0, 0>>
\* a double word as a quad word, and the low double word of a quad word
QW[a \in DWord] == <<0, 0, a[1], a[2]>>
DW[a \in QWord] == <<a[3], a[4]>>

\* a * b (0 <= a, b <= Word)
WMul[a \in Nat, b \in Nat] ==
    LET a1 == a \div HalfWord
        a0 == a % HalfWord
        b1 == b \div HalfWord
        b0 == b % HalfWord
        mid == a1 * b0 + a0 * b1
        low == (mid % HalfWord) * HalfWord + a0 * b0
    IN  <<a1 * b1 + mid \div HalfWord + low \div Word, low % Word>>

\* a + b, a < b, and a - b (a >= b), for double words
WAdd[a \in DWord, b \in DWord] ==
    <<a[1] + b[1] + (a[2] + b[2]) \div Word, (a[2] + b[2]) % Word>>
DLess[a \in DWord, b \in DWord] == a[1] < b[1] \/ (a[1] = b[1] /\ a[2] < b[2])
DSub[a \in DWord, b \in DWord] ==
    IF a[2] >= b[2] THEN <<a[1] - b[1], a[2] - b[2]>>
    ELSE <<a[1] - b[1] - 1, (a[2] + Word) - b[2]>>
\* 2 * a, 4 * a and a + 1 for a double word
D2[a \in DWord] == <<2 * a[1] + a[2] \div (Word \div 2), (a[2] % (Word \div 2)) * 2>>
D4[a \in DWord] == <<4 * a[1] + a[2] \div (Word \div 4), (a[2] % (Word \div 4)) * 4>>
Inc[a \in DWord] == IF a[2] + 1 = Word THEN <<a[1] + 1, 0>> ELSE <<a[1], a[2] + 1>>

\* word i of a quad word, word 0 the least significant; zero outside the quad word
QAt[a \in QWord, i \in Int] == IF i >= 0 /\ i <= 3 THEN a[4 - i] ELSE 0

QAdd[a \in QWord, b \in QWord] ==
    LET s0 == a[4] + b[4]
        s1 == a[3] + b[3] + s0 \div Word
        s2 == a[2] + b[2] + s1 \div Word
        s3 == a[1] + b[1] + s2 \div Word
    IN  <<s3, s2 % Word, s1 % Word, s0 % Word>>

\* a < b, and a - b (a >= b)
QLess[a \in QWord, b \in QWord] ==
    \/ a[1] < b[1]
    \/ a[1] = b[1] /\ a[2] < b[2]
    \/ a[1] = b[1] /\ a[2] = b[2] /\ a[3] < b[3]
    \/ a[1] = b[1] /\ a[2] = b[2] /\ a[3] = b[3] /\ a[4] < b[4]
QSub[a \in QWord, b \in QWord] ==
    LET b0 == IF a[4] < b[4] THEN 1 ELSE 0
        b1 == IF a[3] < b[3] + b0 THEN 1 ELSE 0
        b2 == IF a[2] < b[2] + b1 THEN 1 ELSE 0
    IN  <<(a[1] - b[1]) - b2, (a[2] + b2 * Word) - (b[2] + b1),
          (a[3] + b1 * Word) - (b[3] + b0), (a[4] + b0 * Word) - b[4]>>

\* word k of a * 2^(30 * ws + bs) and of floor(a / 2^(30 * ws + bs)), bs < 30
QShlAt[a \in QWord, ws \in Nat, bs \in Nat, k \in Nat] ==
    (QAt[a, k - ws] % 2^(30 - bs)) * 2^bs + QAt[a, (k - ws) - 1] \div 2^(30 - bs)
QShrAt[a \in QWord, ws \in Nat, bs \in Nat, k \in Nat] ==
    QAt[a, k + ws] \div 2^bs + (QAt[a, k + ws + 1] % 2^bs) * 2^(30 - bs)

\* a * 2^s (what fits the quad word), and floor(a / 2^s)
QShl[a \in QWord, s \in Nat] ==
    <<QShlAt[a, s \div 30, s % 30, 3], QShlAt[a, s \div 30, s % 30, 2],
      QShlAt[a, s \div 30, s % 30, 1], QShlAt[a, s \div 30, s % 30, 0]>>
QShr[a \in QWord, s \in Nat] ==
    <<QShrAt[a, s \div 30, s % 30, 3], QShrAt[a, s \div 30, s % 30, 2],
      QShrAt[a, s \div 30, s % 30, 1], QShrAt[a, s \div 30, s % 30, 0]>>

\* a * b for double words
DMul[a \in DWord, b \in DWord] ==
    QAdd[QAdd[<<WMul[a[1], b[1]][1], WMul[a[1], b[1]][2], 0, 0>>,
              <<0, WMul[a[1], b[2]][1], WMul[a[1], b[2]][2], 0>>],
         QAdd[<<0, WMul[a[2], b[1]][1], WMul[a[2], b[1]][2], 0>>,
              <<0, 0, WMul[a[2], b[2]][1], WMul[a[2], b[2]][2]>>]]

\* the number of bits of a word, of a double word and of a quad word
WBits[w \in Nat] == IF w = 0 THEN 0 ELSE 1 + WBits[w \div 2]
DBits[a \in DWord] == IF a[1] > 0 THEN 30 + WBits[a[1]] ELSE WBits[a[2]]
QBits[a \in QWord] ==
    IF a[1] > 0 THEN 90 + WBits[a[1]]
    ELSE IF a[2] > 0 THEN 60 + WBits[a[2]]
    ELSE DBits[DW[a]]


\* bit s of a quad word, and whether a has a bit set below bit s
QBit[a \in QWord, s \in Nat] == QShr[a, s][4] % 2
QLowBits[a \in QWord, s \in Nat] == QShl[QShr[a, s], s] # a

\* the pair of bits i of a double word; pairs below 0 are zeros
PairAt[a \in DWord, i \in Int] ==
    IF i >= 15 THEN (a[1] \div 4^(i - 15)) % 4
    ELSE IF i >= 0 THEN (a[2] \div 4^i) % 4
    ELSE 0

(***************************************************************************)
(* f64: IEEE 754 binary64, every operation rounded to the nearest value,   *)
(* ties to the even significand.                                           *)
(***************************************************************************)
\* u8::MAX, where the cast `as u8` of line 196 saturates
U8Max == 255
\* the bits of a significand, and the least and greatest exponent of its last place
MantBits == 53
EMin == -1074
EMax == 971
\* 2^52 and 2^53, the bounds of a normal number's significand
MantLow == <<2^22, 0>>
MantHigh == <<2^23, 0>>

F64 == [c : {"fin", "inf", "nan"}, s : {-1, 1}, m : DWord, e : Int]
Fin(s, m, e) == [c |-> "fin", s |-> s, m |-> m, e |-> e]
NaN == [c |-> "nan", s |-> 1, m |-> DZero, e |-> 0]
Inf[s \in {-1, 1}] == [c |-> "inf", s |-> s, m |-> DZero, e |-> 0]
Zero[s \in {-1, 1}] == Fin(s, DZero, EMin)
IsZero[a \in F64] == a.c = "fin" /\ a.m = DZero

\* the f64 of sign s, significand m <= 2^53 and exponent e: a significand that
\* rounding has carried to 2^53 moves up one exponent, and past EMax lies infinity
FPack[s \in {-1, 1}, m \in DWord, e \in Int] ==
    IF m = MantHigh
    THEN IF e + 1 > EMax THEN Inf[s] ELSE Fin(s, MantLow, e + 1)
    ELSE IF e > EMax THEN Inf[s] ELSE Fin(s, m, e)

\* whether q / 2^sh rounds upwards (sh > 0): the bit below the last place is set, and
\* either something is set below it (st tells of a remainder below q) or the last
\* place is odd
RoundsUp[q \in QWord, sh \in Nat, st \in {0, 1}] ==
    QBit[q, sh - 1] = 1 /\ (st = 1 \/ QLowBits[q, sh - 1] \/ QBit[q, sh] = 1)

\* the f64 nearest to s * (q + r) * 2^e, where 0 <= r < 1 and st = 1 says r > 0 (q
\* then has more than MantBits + 1 bits): q loses its sh lowest bits, or is shifted
\* up if sh < 0
FRoundAt[s \in {-1, 1}, q \in QWord, e \in Int, st \in {0, 1}, sh \in Int] ==
    IF sh <= 0 THEN FPack[s, DW[QShl[q, -sh]], e + sh]
    ELSE FPack[s, IF RoundsUp[q, sh, st] THEN Inc[DW[QShr[q, sh]]] ELSE DW[QShr[q, sh]],
               e + sh]
FRound[s \in {-1, 1}, q \in QWord, e \in Int, st \in {0, 1}] ==
    IF q = QZero THEN Zero[s]
    ELSE FRoundAt[s, q, e, st, Max[QBits[q] - MantBits, EMin - e]]

\* a whole number n as f64 (|n| < 2^31), as `n as f64` and the literal n.0 give it
FromInt[n \in Int] == FRound[Sgn[n], <<0, 0, Abs[n] \div Word, Abs[n] % Word>>, 0, 0]

\* -a
FNeg[a \in F64] == IF a.c = "nan" THEN a ELSE [a EXCEPT !.s = -a.s]

\* a * b
FMul[a \in F64, b \in F64] ==
    IF a.c = "nan" \/ b.c = "nan" THEN NaN
    ELSE IF a.c = "inf" \/ b.c = "inf"
         THEN IF IsZero[a] \/ IsZero[b] THEN NaN ELSE Inf[a.s * b.s]
    ELSE FRound[a.s * b.s, DMul[a.m, b.m], a.e + b.e, 0]

\* a significand m > 0 and its exponent, with m shifted up to MantBits bits
Normal[m \in DWord, e \in Int] ==
    <<DW[QShl[QW[m], MantBits - DBits[m]]], e - (MantBits - DBits[m])>>

\* a quotient or root q with st = 1 if a remainder is left
Digits == [q : DWord, st : {0, 1}]

\* long division bit by bit: t is twice the remainder so far (at first the dividend),
\* q the quotient so far, i the bits still to come
FDivLoop[t \in DWord, den \in DWord, i \in Nat, q \in DWord] ==
    IF i = 0 THEN [q |-> q, st |-> IF t = DZero THEN 0 ELSE 1]
    ELSE IF DLess[t, den] THEN FDivLoop[D2[t], den, i - 1, D2[q]]
    ELSE FDivLoop[D2[DSub[t, den]], den, i - 1, Inc[D2[q]]]
\* a / b for normal significands: the quotient floor(a * 2^55 / b) has 55 or 56 bits
FDivOf[s \in {-1, 1}, d \in Digits, e \in Int] == FRound[s, QW[d.q], e, d.st]
FDivFin[s \in {-1, 1}, a \in DWord \X Int, b \in DWord \X Int] ==
    FDivOf[s, FDivLoop[a[1], b[1], MantBits + 3, DZero], (a[2] - b[2]) - (MantBits + 2)]
\* a / b
FDiv[a \in F64, b \in F64] ==
    IF a.c = "nan" \/ b.c = "nan" THEN NaN
    ELSE IF a.c = "inf" THEN (IF b.c = "inf" THEN NaN ELSE Inf[a.s * b.s])
    ELSE IF b.c = "inf" THEN Zero[a.s * b.s]
    ELSE IF IsZero[b] THEN (IF IsZero[a] THEN NaN ELSE Inf[a.s * b.s])
    ELSE IF IsZero[a] THEN Zero[a.s * b.s]
    ELSE FDivFin[a.s * b.s, Normal[a.m, a.e], Normal[b.m, b.e]]

\* the f64 nearest to the fraction n / d of whole numbers, which is how rustc reads
\* a decimal literal such as 0.99 = 99 / 100
Dec[n \in Int, d \in Nat] == FDiv[FromInt[n], FromInt[d]]

\* the square root digit by digit of a * 2^58 (a < 2^54), from the pair of bits i
\* downwards: t is four times the remainder so far plus the pair i, root the root so
\* far
FSqrtLoop[a \in DWord, i \in Nat, t \in DWord, root \in DWord] ==
    IF DLess[t, Inc[D4[root]]]
    THEN IF i = 0 THEN [q |-> D2[root], st |-> IF t = DZero THEN 0 ELSE 1]
         ELSE FSqrtLoop[a, i - 1, WAdd[D4[t], <<0, PairAt[a, i - 30]>>], D2[root]]
    ELSE IF i = 0
         THEN [q |-> Inc[D2[root]], st |-> IF t = Inc[D4[root]] THEN 0 ELSE 1]
         ELSE FSqrtLoop[a, i - 1,
                        WAdd[D4[DSub[t, Inc[D4[root]]]], <<0, PairAt[a, i - 30]>>],
                        Inc[D2[root]]]
\* sqrt(a * 2^e) for a significand a < 2^54 and an even e: the root of a * 2^58 has
\* 56 bits
FSqrtOf[d \in Digits, e \in Int] == FRound[1, QW[d.q], e, d.st]
FSqrtEven[a \in DWord, e \in Int] ==
    FSqrtOf[FSqrtLoop[a, MantBits + 2, <<0, PairAt[a, 26]>>, DZero], (e - 58) \div 2]
FSqrtFin[a \in DWord \X Int] ==
    IF (a[2] - EMin) % 2 = 0 THEN FSqrtEven[a[1], a[2]]
    ELSE FSqrtEven[D2[a[1]], a[2] - 1]
\* a.sqrt()
FSqrt[a \in F64] ==
    IF a.c = "nan" THEN NaN
    ELSE IF IsZero[a] THEN a
    ELSE IF a.s = -1 THEN NaN
    ELSE IF a.c = "inf" THEN a
    ELSE FSqrtFin[Normal[a.m, a.e]]

\* an exponent further apart than this leaves the smaller number below a quarter of
\* the last place of the larger one
FarApart == 60

\* the sum of two finite numbers of magnitudes a * 2^e (sign sa) and b * 2^e (sign sb)
FAddMag[sa \in {-1, 1}, a \in QWord, sb \in {-1, 1}, b \in QWord, e \in Int] ==
    IF sa = sb THEN FRound[sa, QAdd[a, b], e, 0]
    ELSE IF a = b THEN Zero[1]
    ELSE IF QLess[b, a] THEN FRound[sa, QSub[a, b], e, 0]
    ELSE FRound[sb, QSub[b, a], e, 0]
\* a + b for finite numbers other than zero, a.e >= b.e
FAddFin[a \in F64, b \in F64] ==
    IF a.e - b.e > FarApart
    THEN IF a.s = b.s THEN FRound[a.s, QShl[QW[a.m], 2], a.e - 2, 1]
         ELSE FRound[a.s, QSub[QShl[QW[a.m], 2], <<0, 0, 0, 1>>], a.e - 2, 1]
    ELSE FAddMag[a.s, QShl[QW[a.m], a.e - b.e], b.s, QW[b.m], b.e]
\* a + b
FAdd[a \in F64, b \in F64] ==
    IF a.c = "nan" \/ b.c = "nan" THEN NaN
    ELSE IF a.c = "inf" THEN (IF b.c = "inf" /\ b.s # a.s THEN NaN ELSE a)
    ELSE IF b.c = "inf" THEN b
    ELSE IF IsZero[a] /\ IsZero[b] THEN Zero[IF a.s = b.s THEN a.s ELSE 1]
    ELSE IF IsZero[a] THEN b
    ELSE IF IsZero[b] THEN a
    ELSE IF a.e >= b.e THEN FAddFin[a, b]
    ELSE FAddFin[b, a]
\* a - b
FSub[a \in F64, b \in F64] == FAdd[a, FNeg[b]]

\* |a| < |b| for numbers that are not NaN
MagLess[a \in F64, b \in F64] ==
    IF a.c = "inf" THEN FALSE
    ELSE IF b.c = "inf" THEN TRUE
    ELSE a.e < b.e \/ (a.e = b.e /\ DLess[a.m, b.m])
\* a < b, a > b and a >= b; a comparison with NaN is false
FLess[a \in F64, b \in F64] ==
    IF a.c = "nan" \/ b.c = "nan" THEN FALSE
    ELSE IF IsZero[a] /\ IsZero[b] THEN FALSE
    ELSE IF a.s # b.s THEN a.s < b.s
    ELSE IF a.s = 1 THEN MagLess[a, b]
    ELSE MagLess[b, a]
FGt[a \in F64, b \in F64] == FLess[b, a]
FGe[a \in F64, b \in F64] == a.c # "nan" /\ b.c # "nan" /\ ~FLess[a, b]

\* a.min(b) and a.max(b), the set of the results a build can give: a NaN gives way
\* to the other number; of two numbers that compare equal either may be returned,
\* which tells only for the zeros +0.0 and -0.0 (x.max(0.0) of -0.0 is -0.0 in a
\* debug build and +0.0 in an optimised one)
FMin[a \in F64, b \in F64] ==
    IF a.c = "nan" THEN {b} ELSE IF b.c = "nan" THEN {a}
    ELSE IF FLess[b, a] THEN {b} ELSE IF FLess[a, b] THEN {a} ELSE {a, b}
FMax[a \in F64, b \in F64] ==
    IF a.c = "nan" THEN {b} ELSE IF b.c = "nan" THEN {a}
    ELSE IF FLess[a, b] THEN {b} ELSE IF FLess[b, a] THEN {a} ELSE {a, b}

\* a.round(): the nearest whole number, halves away from zero
FRoundInt[a \in F64] ==
    IF a.c # "fin" \/ a.e >= 0 \/ IsZero[a] THEN a
    ELSE IF -a.e > MantBits THEN Zero[a.s]
    ELSE FRound[a.s, QShr[QAdd[QW[a.m], QShl[<<0, 0, 0, 1>>, (-a.e) - 1]], -a.e], 0, 0]

\* `a as u8`: the whole part of a, cut to 0..255; NaN gives 0
ToU8[a \in F64] ==
    IF a.c = "nan" \/ a.s = -1 \/ IsZero[a] THEN 0
    ELSE IF a.c = "inf" \/ a.e >= 0 THEN U8Max
    ELSE IF -a.e > MantBits THEN 0
    ELSE IF QShr[QW[a.m], -a.e][3] > 0 THEN U8Max
    ELSE Min[QShr[QW[a.m], -a.e][4], U8Max]

(***************************************************************************)
(* Vectors and points (cgmath Vector3<f64> / Point3<f64>).                 *)
(***************************************************************************)
Vec3 == F64 \X F64 \X F64
\* the vector or point of three whole-number literals
V3[a \in Int, b \in Int, c \in Int] == <<FromInt[a], FromInt[b], FromInt[c]>>
\* a - b, a + b, v * k and -v, component by component
VSub[a \in Vec3, b \in Vec3] == <<FSub[a[1], b[1]], FSub[a[2], b[2]], FSub[a[3], b[3]]>>
VAdd[a \in Vec3, b \in Vec3] == <<FAdd[a[1], b[1]], FAdd[a[2], b[2]], FAdd[a[3], b[3]]>>
VScale[v \in Vec3, k \in F64] == <<FMul[v[1], k], FMul[v[2], k], FMul[v[3], k]>>
VNeg[v \in Vec3] == <<FNeg[v[1]], FNeg[v[2]], FNeg[v[3]]>>
\* a.dot(b): the products are summed from the left
Dot[a \in Vec3, b \in Vec3] ==
    FAdd[FAdd[FMul[a[1], b[1]], FMul[a[2], b[2]]], FMul[a[3], b[3]]]
\* v.magnitude()
Magnitude[v \in Vec3] == FSqrt[Dot[v, v]]
\* v.normalize(): v times the reciprocal of its magnitude
Normalize[v \in Vec3] == VScale[v, FDiv[FromInt[1], Magnitude[v]]]

\* an Option<f64>
None == [some |-> FALSE, d |-> Zero[1]]
Some(d) == [some |-> TRUE, d |-> d]

(***************************************************************************)
(* Program constants.                                                      *)
(***************************************************************************)
\* const HALF_PIXEL = 0.5
HALF_PIXEL == Dec[1, 2]
\* const BLACK: the background pixel (its alpha is dropped by the rgb8 buffer)
BLACK == <<70, 70, 70>>
\* const ALBEDO_DEFAULT = 0.99
ALBEDO_DEFAULT == Dec[99, 100]
\* the literal 1e-6 of Plane::intersection
Epsilon == Dec[1, 1000000]
\* std::f64::consts::PI = 7074237752028440 * 2^-51
PI == Fin(1, <<6588397, 340012312>>, -51)
\* the divisor 255.0 and the clamp bound 255.0 of the colour arithmetic
ChannelMax == 255
\* DynamicImage::new_rgb8 hands out a zeroed buffer
ZeroPixel == <<0, 0, 0>>

(***************************************************************************)
(* Sphere (lines 76-92).  A sphere is [kind, center, radius, albedo,       *)
(* color]; a ray is [origin, direction].                                   *)
(***************************************************************************)
\* lines 82-87
SphereIntersectionAt[adj \in F64, r_squared \in F64, d_squared \in F64] ==
    IF FGt[r_squared, d_squared]
    THEN Some(FSub[adj, FSqrt[FSub[r_squared, d_squared]]])
    ELSE None
\* lines 80-81
SphereIntersectionOn[center_l \in Vec3, adj \in F64, radius \in F64] ==
    SphereIntersectionAt[adj, FMul[radius, radius],
                         FSub[Dot[center_l, center_l], FMul[adj, adj]]]
\* line 79
SphereIntersectionBy[center_l \in Vec3, direction \in Vec3, radius \in F64] ==
    SphereIntersectionOn[center_l, Dot[center_l, direction], radius]

\* a variant that rejects spheres behind the origin (adj < 0)
SphereIntersectionFrontOnly(s, r) ==
    LET center_l == VSub[s.center, r.origin]
        adj == Dot[center_l, r.direction]
    IN  IF FGe[adj, Zero[1]] THEN SphereIntersectionOn[center_l, adj, s.radius]
        ELSE None

\* Sphere::intersection
SphereIntersection(s, r) ==
    SphereIntersectionBy[VSub[s.center, r.origin], r.direction, s.radius]

\* Sphere::normal_vec: (hit_p - center).normalize()
SphereNormalVec(s, hit_p) == Normalize[VSub[hit_p, s.center]]

(***************************************************************************)
(* Plane (lines 117-132).  A plane is [kind, point, normal, albedo, color]. *)
(***************************************************************************)
\* lines 123-127
PlaneIntersectionAt[distance \in F64] ==
    IF FGe[distance, Zero[1]] THEN Some(distance) ELSE None
\* lines 120-122
PlaneIntersectionOn[denom \in F64, point \in Vec3, normal \in Vec3, origin \in Vec3] ==
    IF FGt[denom, Epsilon]
    THEN PlaneIntersectionAt[FDiv[Dot[VSub[point, origin], normal], denom]]
    ELSE None

\* a variant that takes the plane as two-sided (denom.abs() > 1e-6)
PlaneIntersectionTwoSided(p, r) ==
    LET denom == Dot[p.normal, r.direction]
    IN  IF FGt[denom, Epsilon] \/ FGt[FNeg[denom], Epsilon]
        THEN PlaneIntersectionAt[FDiv[Dot[VSub[p.point, r.origin], p.normal], denom]]
        ELSE None

\* Plane::intersection
PlaneIntersection(p, r) ==
    PlaneIntersectionOn[Dot[p.normal, r.direction], p.point, p.normal, r.origin]

\* Plane::normal_vec: -self.normal
PlaneNormalVec(p, hit_p) == VNeg[p.normal]

(***************************************************************************)
(* Object: the dispatch layer (lines 57-70, 102-115).                      *)
(***************************************************************************)
GetColor(o) == o.color
GetAlbedo(o) == o.albedo

Intersection(o, r) ==
    IF o.kind = "Plane" THEN PlaneIntersection(o, r) ELSE SphereIntersection(o, r)

NormalVec(o, hit_p) ==
    IF o.kind = "Plane" THEN PlaneNormalVec(o, hit_p) ELSE SphereNormalVec(o, hit_p)

(***************************************************************************)
(* Colour arithmetic (lines 94-100, 195-197).  A colour is a triple of f64 *)
(* channels.  Clamp, color_mul_const and color_mul_color give the set of   *)
(* the results a build can return: one value, but for a channel that is    *)
(* -0.0 before .max(0.0), which comes out as -0.0 or as +0.0.              *)
(***************************************************************************)
\* a variant without the upper clamp
ClampNoMin(c) == FMax[c, Zero[1]]

\* .min(255.0).max(0.0)
Clamp(c) == UNION {FMax[lo, Zero[1]] : lo \in FMin[c, FromInt[ChannelMax]]}

\* (a * b) / 255.0
Scale[a \in F64, b \in F64] == FDiv[FMul[a, b], FromInt[ChannelMax]]

\* color_mul_const
ColorMulConst(color, constant) ==
    Clamp(Scale[color[1], constant]) \X Clamp(Scale[color[2], constant])
        \X Clamp(Scale[color[3], constant])

\* a variant that multiplies channel by channel
ColorMulColorPerChannel(color, color2) ==
    Clamp(Scale[color[1], color2[1]]) \X Clamp(Scale[color[2], color2[2]])
        \X Clamp(Scale[color[3], color2[3]])

\* color_mul_color: the third channel multiplies by color2.data[1]
ColorMulColor(color, color2) ==
    Clamp(Scale[color[1], color2[1]]) \X Clamp(Scale[color[2], color2[2]])
        \X Clamp(Scale[color[3], color2[2]])

\* rgbf64_to_rgb8: round() each channel, then the cast to u8
RgbF64ToRgb8(color) ==
    <<ToU8[FRoundInt[color[1]]], ToU8[FRoundInt[color[2]]], ToU8[FRoundInt[color[3]]]>>

\* an Rgb<f64> with whole-number channels
Rgb(r, g, b) == V3[r, g, b]

(***************************************************************************)
(* Ray::create_prime (lines 146-157).                                      *)
(***************************************************************************)
\* line 148
AspectRatio[w \in Nat, h \in Nat] == FDiv[FromInt[w], FromInt[h]]
\* (p as f64 + HALF_PIXEL) / (n as f64 / 2.0), of lines 149 and 150
CanvasPart[p \in Nat, n \in Nat] ==
    FDiv[FAdd[FromInt[p], HALF_PIXEL], FDiv[FromInt[n], FromInt[2]]]
\* lines 149 and 150
CanvasX[px \in Nat, w \in Nat, h \in Nat] ==
    FMul[FSub[CanvasPart[px, w], FromInt[1]], AspectRatio[w, h]]
CanvasY[py \in Nat, h \in Nat] == FSub[FromInt[1], CanvasPart[py, h]]

\* a variant of create_prime that leaves out the - 1.0 of canvas_x
CreatePrimeUncentred(px, py, sc) ==
    [origin |-> V3[0, 0, 0],
     direction |-> Normalize[<<FMul[CanvasPart[px, sc.width],
                                    AspectRatio[sc.width, sc.height]],
                               CanvasY[py, sc.height], FromInt[-1]>>]]

CreatePrime(px, py, sc) ==
    [origin |-> V3[0, 0, 0],
     direction |-> Normalize[<<CanvasX[px, sc.width, sc.height],
                               CanvasY[py, sc.height], FromInt[-1]>>]]

(***************************************************************************)
(* Shading of a hit (lines 172-177).                                       *)
(***************************************************************************)
\* ray.origin + (ray.direction * d)
HitPoint(r, d) == VAdd[r.origin, VScale[r.direction, d]]

\* light_p of line 174: the results a build can give (.max(0.0) of -0.0)
LightPower(o, r, d, d_l) ==
    {FMul[FMul[FDiv[GetAlbedo(o), PI], d_l.intensity], cosine] :
        cosine \in FMax[Dot[NormalVec(o, HitPoint(r, d)),
                            VNeg[Normalize[d_l.direction]]], Zero[1]]}

\* the colours that can be handed to rgbf64_to_rgb8 at line 176
ShadeF64(o, r, d, d_l) ==
    UNION {ColorMulConst(c, light_p) :
              c \in ColorMulColor(GetColor(o), d_l.color),
              light_p \in LightPower(o, r, d, d_l)}

\* the pixels that can be written for a hit at line 176
Shade(o, r, d, d_l) == {RgbF64ToRgb8(c) : c \in ShadeF64(o, r, d, d_l)}

(***************************************************************************)
(* Scenes.                                                                 *)
(***************************************************************************)
MaxWidth == 3
MaxHeight == 3
MaxObjects == 2

\* the scene of test_scene (lines 202-229)
TestLight ==
    [kind |-> "DirLight", direction |-> V3[-8, -10, -9], intensity |-> FromInt[1000],
     color |-> Rgb(230, 230, 230)]
TestSphere ==
    [kind |-> "Sphere", center |-> V3[0, 0, -7], radius |-> FromInt[2],
     albedo |-> ALBEDO_DEFAULT, color |-> Rgb(255, 255, 0)]
TestScene ==
    [width |-> 800, height |-> 600, objects |-> <<TestSphere>>, light |-> TestLight]

\* a light along the x axis: it grazes the point of BigSphere nearest to the
\* origin, where normal . -direction is -0.0
SideLight ==
    [kind |-> "DirLight", direction |-> V3[1, 0, 0], intensity |-> FromInt[400],
     color |-> Rgb(255, 128, 64)]
BigSphere ==
    [kind |-> "Sphere", center |-> V3[0, 0, -4], radius |-> FromInt[3],
     albedo |-> ALBEDO_DEFAULT, color |-> Rgb(255, 255, 0)]
\* a sphere that the ray of pixel (0,0) of a 1 x 2 image touches in one point
GrazedSphere ==
    [kind |-> "Sphere", center |-> V3[2, 2, -4], radius |-> FromInt[2],
     albedo |-> Dec[1, 2], color |-> Rgb(0, 128, 255)]
Floor ==
    [kind |-> "Plane", point |-> V3[0, -2, 0], normal |-> V3[0, -1, 0],
     albedo |-> Dec[4, 5], color |-> Rgb(200, 200, 200)]

ObjectPool == {BigSphere, GrazedSphere, Floor}
Lights == {TestLight, SideLight}

SeqsUpTo(S, n) == UNION {[1..k -> S] : k \in 0..n}

Scenes ==
    {[width |-> w, height |-> h, objects |-> os, light |-> l] :
        w \in 1..MaxWidth, h \in 1..MaxHeight,
        os \in SeqsUpTo(ObjectPool, MaxObjects), l \in Lights}

Pixels(sc) == (0..(sc.width - 1)) \X (0..(sc.height - 1))

(***************************************************************************)
(* Scene::render (lines 160-193).                                          *)
(***************************************************************************)
\* image.put_pixel(x, y, p)
PutPixel(img, px, py, p) == [img EXCEPT ![<<px, py>>] = p]

NoCall == [done |-> TRUE, val |-> <<>>]
NoRay == [origin |-> V3[0, 0, 0], direction |-> V3[0, 0, -1]]

RenderInit(sc) ==
    /\ scene = sc
    /\ x = 0 /\ y = 0 /\ oi = 1
    /\ ray = NoRay
    /\ image = <<>>
    /\ pc = "new"
    /\ tests = 0
    /\ trace = <<>>
    /\ shaded = Rgb(0, 0, 0)

\* line 161: the buffer is allocated, zeroed
NewImage ==
    /\ pc = "new"
    /\ image' = [p \in Pixels(scene) |-> ZeroPixel]
    /\ x' = 0
    /\ pc' = "for_x"
    /\ UNCHANGED <<scene, y, oi, ray, tests, trace, shaded>>

\* a variant of the x loop that starts each column at row x instead of row 0
ForXSkewed ==
    /\ pc = "for_x"
    /\ IF x < scene.width
       THEN y' = x /\ pc' = "for_y"
       ELSE y' = y /\ pc' = "done"
    /\ UNCHANGED <<scene, x, oi, ray, image, tests, trace, shaded>>

\* line 163: for x in 0..self.width
ForX ==
    /\ pc = "for_x"
    /\ IF x < scene.width
       THEN y' = 0 /\ pc' = "for_y"
       ELSE y' = y /\ pc' = "done"
    /\ UNCHANGED <<scene, x, oi, ray, image, tests, trace, shaded>>

\* lines 164-166: for y in 0..self.height, and the pixel's primary ray
ForY ==
    /\ pc = "for_y"
    /\ IF y < scene.height
       THEN /\ ray' = CreatePrime(x, y, scene)
            /\ oi' = 1
            /\ trace' = Append(trace, <<x, y>>)
            /\ pc' = "for_obj"
            /\ x' = x
       ELSE /\ x' = x + 1
            /\ pc' = "for_x"
            /\ UNCHANGED <<ray, oi, trace>>
    /\ UNCHANGED <<scene, y, image, tests, shaded>>

\* a variant of the object loop that leaves the loop after the first hit
ForObjectBreak ==
    /\ pc = "for_obj"
    /\ IF oi <= Len(scene.objects)
       THEN \E hit \in {Intersection(scene.objects[oi], ray)} :
                /\ tests' = tests + 1
                /\ y' = y
                /\ IF hit.some
                   THEN \E colour \in ShadeF64(scene.objects[oi], ray, hit.d,
                                               scene.light) :
                        \E printed \in BOOLEAN :
                            /\ oi' = Len(scene.objects) + 1
                            /\ IF printed
                               THEN /\ shaded' = colour
                                    /\ image' = PutPixel(image, x, y,
                                                         RgbF64ToRgb8(colour))
                                    /\ pc' = pc
                               ELSE /\ pc' = "panic_print"
                                    /\ UNCHANGED <<image, shaded>>
                   ELSE /\ image' = PutPixel(image, x, y, BLACK)
                        /\ oi' = oi + 1
                        /\ pc' = pc
                        /\ shaded' = shaded
       ELSE /\ y' = y + 1
            /\ pc' = "for_y"
            /\ UNCHANGED <<oi, image, tests, shaded>>
    /\ UNCHANGED <<scene, x, ray, trace>>

\* lines 168-186: one turn of the object loop.  println! (line 175) writes to the
\* process's stdout and panics when the write fails, before put_pixel is reached:
\* printed says whether the write went through.
ForObject ==
    /\ pc = "for_obj"
    /\ IF oi <= Len(scene.objects)
       THEN \E hit \in {Intersection(scene.objects[oi], ray)} :
                /\ tests' = tests + 1
                /\ oi' = oi + 1
                /\ y' = y
                /\ IF hit.some
                   THEN IF scene.light.kind = "DirLight"
                        THEN \E light_p \in LightPower(scene.objects[oi], ray, hit.d,
                                                       scene.light) :
                             \E mixed \in ColorMulColor(GetColor(scene.objects[oi]),
                                                        scene.light.color) :
                             \E colour \in ColorMulConst(mixed, light_p) :
                             \E printed \in BOOLEAN :
                                 IF printed
                                 THEN /\ shaded' = colour
                                      /\ image' = PutPixel(image, x, y,
                                                           RgbF64ToRgb8(colour))
                                      /\ pc' = pc
                                 ELSE /\ pc' = "panic_print"
                                      /\ UNCHANGED <<image, shaded>>
                        ELSE /\ pc' = "panic"
                             /\ UNCHANGED <<image, shaded>>
                   ELSE /\ image' = PutPixel(image, x, y, BLACK)
                        /\ pc' = pc
                        /\ shaded' = shaded
       ELSE /\ y' = y + 1
            /\ pc' = "for_y"
            /\ UNCHANGED <<oi, image, tests, shaded>>
    /\ UNCHANGED <<scene, x, ray, trace>>

Init ==
    /\ \E sc \in Scenes : RenderInit(sc)
    /\ fn = "none" /\ arg = <<>> /\ res = NoCall

Next ==
    \/ NewImage /\ UNCHANGED fnVars
    \/ ForX /\ UNCHANGED fnVars
    \/ ForY /\ UNCHANGED fnVars
    \/ ForObject /\ UNCHANGED fnVars

Spec == Init /\ [][Next]_vars

\* render is straight-line sequential code: it takes its next step whenever it has one
SpecFair == Init /\ [][Next]_vars /\ WF_vars(Next)

(***************************************************************************)
(* test_scene (lines 199-234): render of the 800 x 600 scene.  The run is  *)
(* followed through a window of columns and rows around the image centre:  *)
(* a behaviour starts where render enters the window in one column, with   *)
(* the part of the buffer that column owns in the window, still zeroed.    *)
(***************************************************************************)
Win == 5

CentrePixel == <<TestScene.width \div 2, TestScene.height \div 2>>
WinCols == (CentrePixel[1] - Win)..(CentrePixel[1] + Win)
WinRows == (CentrePixel[2] - Win)..(CentrePixel[2] + Win)

E2EInit ==
    /\ \E x0 \in WinCols :
          /\ scene = TestScene
          /\ x = x0 /\ y = CentrePixel[2] - Win /\ oi = 1
          /\ ray = NoRay
          /\ image = [p \in {x0} \X WinRows |-> ZeroPixel]
          /\ pc = "for_y"
          /\ tests = (x0 * TestScene.height + CentrePixel[2] - Win)
                        * Len(TestScene.objects)
          /\ trace = <<>>
          /\ shaded = Rgb(0, 0, 0)
    /\ fn = "none" /\ arg = <<>> /\ res = NoCall

E2ENext ==
    \/ y \in WinRows /\ ForY /\ UNCHANGED fnVars
    \/ ForObject /\ UNCHANGED fnVars

SpecE2E == E2EInit /\ [][E2ENext]_vars

(***************************************************************************)
(* Single calls of the pure functions, on inputs drawn from bounded sets.  *)
(* The vectors of an input are made from whole numbers; an argument record *)
(* keeps, next to the f64 values the function is called with, the whole    *)
(* numbers they were made from (field q).                                  *)
(***************************************************************************)
MaxCoord == 2
MaxRadius == 3

Coords == (-MaxCoord)..MaxCoord
Depths == {-7, 2}
Points == {<<cx, cy, cz>> : cx \in Coords, cy \in Coords, cz \in Depths}
Origins == {<<0, 0, 0>>, <<1, 0, 0>>}
\* rays are built as create_prime builds them: a vector, normalised
Directions ==
    {<<0, 0, -1>>, <<0, 0, 1>>, <<1, 0, -1>>, <<0, 1, -2>>, <<-1, 1, -2>>,
     <<1, 2, 2>>, <<2, 0, 1>>, <<-1, -1, -1>>, <<-3, -3, -3>>}
\* the f64 vector of a whole-number vector
Vec(v) == V3[v[1], v[2], v[3]]
Ray(o, v) == [origin |-> Vec(o), direction |-> Normalize[Vec(v)]]

SphereArg(c, rad, o, v) ==
    [s |-> [kind |-> "Sphere", center |-> Vec(c), radius |-> FromInt[rad],
            albedo |-> ALBEDO_DEFAULT, color |-> Rgb(255, 255, 0)],
     r |-> Ray(o, v),
     q |-> [center |-> c, radius |-> rad, origin |-> o, v |-> v]]

\* rays that touch their sphere in one point, with a direction that has no exact
\* f64 form
GrazingArgs ==
    {SphereArg(<<3, 2, 4>>, 3, <<0, 0, 0>>, <<2, 0, 1>>),
     SphereArg(<<0, 0, -7>>, 2, <<0, 0, 0>>, <<4, 2, -15>>),
     SphereArg(<<2, 2, -4>>, 2, <<0, 0, 0>>, <<0, 1, -2>>)}

SphereArgs ==
    {SphereArg(c, rad, o, v) :
        c \in Points, rad \in 1..MaxRadius, o \in Origins, v \in Directions}
    \cup GrazingArgs

PlanePoints == {<<0, 0, 0>>, <<0, -2, 0>>, <<1, 1, -7>>, <<3, -1, -2>>}
NormalSteps ==
    {<<0, -1, 0>>, <<0, 1, 0>>, <<0, 0, 1>>, <<0, 0, -1>>, <<-1, -1, -1>>,
     <<1, 1, 1>>, <<1, 0, -1>>, <<1, 1, 0>>}
\* the literal 1e-6 is 1 / EpsDen
EpsDen == 1000000
\* a normal is a whole-number vector, or one divided by EpsDen
Normals == {[num |-> n, den |-> d] : n \in NormalSteps, d \in {1, EpsDen}}
NormalOf(n) == <<Dec[n.num[1], n.den], Dec[n.num[2], n.den], Dec[n.num[3], n.den]>>

PlaneArg(pt, n, o, v) ==
    [p |-> [kind |-> "Plane", point |-> Vec(pt), normal |-> NormalOf(n),
            albedo |-> ALBEDO_DEFAULT, color |-> Rgb(200, 200, 200)],
     r |-> Ray(o, v),
     q |-> [point |-> pt, normal |-> n, origin |-> o, v |-> v]]

PlaneArgs ==
    {PlaneArg(pt, n, o, v) :
        pt \in PlanePoints, n \in Normals, o \in Origins, v \in Directions}

\* the greatest finite f64
Huge == Fin(1, <<2^23 - 1, 2^30 - 1>>, EMax)
\* channel values 0, 127.5 and 300
ChannelVals == {FromInt[0], Dec[255, 2], FromInt[300]}
Colors == ChannelVals \X ChannelVals \X ChannelVals
\* second colours may have a negative channel
SignedVals == ChannelVals \cup {FromInt[-1]}
SignedColors == SignedVals \X SignedVals \X SignedVals
\* factors -1, 0, 0.5, 1, 181.25, 300 and the greatest f64
Factors ==
    {FromInt[-1], FromInt[0], Dec[1, 2], FromInt[1], Dec[725, 4], FromInt[300], Huge}

\* the arguments render passes to color_mul_color and color_mul_const (line 176)
RenderShapes == {[width |-> w, height |-> h] : w \in 1..2, h \in 1..2}
RenderHits ==
    UNION {{[o |-> o, l |-> l, r |-> CreatePrime(p[1], p[2], sc)] :
               o \in ObjectPool, l \in Lights, p \in Pixels(sc)} : sc \in RenderShapes}
RenderMulColorArgs == {[color |-> GetColor(c.o), color2 |-> c.l.color] : c \in RenderHits}
RenderMulConstOf(c, hit) ==
    IF hit.some
    THEN {[color |-> mixed, constant |-> light_p] :
             mixed \in ColorMulColor(GetColor(c.o), c.l.color),
             light_p \in LightPower(c.o, c.r, hit.d, c.l)}
    ELSE {}
RenderMulConstArgs == UNION {RenderMulConstOf(c, Intersection(c.o, c.r)) : c \in RenderHits}

MulConstArgs ==
    {[color |-> c, constant |-> k] : c \in Colors, k \in Factors} \cup RenderMulConstArgs
MulColorArgs ==
    {[color |-> c, color2 |-> c2] : c \in Colors, c2 \in SignedColors}
        \cup RenderMulColorArgs

NotCalled == [done |-> FALSE, val |-> <<>>]
Returned(v) == [done |-> TRUE, val |-> v]

FnInit ==
    /\ \/ fn = "Sphere::intersection" /\ arg \in SphereArgs
       \/ fn = "Plane::intersection" /\ arg \in PlaneArgs
       \/ fn = "color_mul_const" /\ arg \in MulConstArgs
       \/ fn = "color_mul_color" /\ arg \in MulColorArgs
    /\ res = NotCalled
    /\ RenderInit([width |-> 1, height |-> 1, objects |-> <<>>, light |-> TestLight])

CallSphereIntersection ==
    /\ fn = "Sphere::intersection" /\ ~res.done
    /\ res' = Returned(SphereIntersection(arg.s, arg.r))
    /\ UNCHANGED <<fn, arg, renderVars>>

CallPlaneIntersection ==
    /\ fn = "Plane::intersection" /\ ~res.done
    /\ res' = Returned(PlaneIntersection(arg.p, arg.r))
    /\ UNCHANGED <<fn, arg, renderVars>>

CallColorMulConst ==
    /\ fn = "color_mul_const" /\ ~res.done
    /\ \E color \in ColorMulConst(arg.color, arg.constant) : res' = Returned(color)
    /\ UNCHANGED <<fn, arg, renderVars>>

CallColorMulColor ==
    /\ fn = "color_mul_color" /\ ~res.done
    /\ \E color \in ColorMulColor(arg.color, arg.color2) : res' = Returned(color)
    /\ UNCHANGED <<fn, arg, renderVars>>

FnNext ==
    \/ CallSphereIntersection
    \/ CallPlaneIntersection
    \/ CallColorMulConst
    \/ CallColorMulColor

SpecFn == FnInit /\ [][FnNext]_vars

(***************************************************************************)
(* Properties of the pure functions (checked under SpecFn).                *)
(***************************************************************************)
\* whole-number vectors, in exact arithmetic
IDot(a, b) == a[1] * b[1] + a[2] * b[2] + a[3] * b[3]
ISub(a, b) == <<a[1] - b[1], a[2] - b[2], a[3] - b[3]>>

\* |a| <= 10^-9
Tiny(a) == FGe[Dec[1, 1000000000], a] /\ FGe[Dec[1, 1000000000], FNeg[a]]

\* the discriminant of |origin + t * v - center|^2 = radius^2, exactly: its sign is
\* the sign of radius^2 - d2 for the direction v / |v|
Discriminant(q) ==
    LET cl == ISub(q.center, q.origin)
    IN  IDot(cl, q.v) * IDot(cl, q.v)
           - (IDot(cl, cl) - q.radius * q.radius) * IDot(q.v, q.v)

SphereExample == SphereArg(<<0, 0, -7>>, 2, <<0, 0, 0>>, <<0, 0, -1>>)

SphereReturned == fn = "Sphere::intersection" /\ res.done

\* C3: with adj = (center - origin) . direction and d2 = |center - origin|^2 - adj^2
\* as the f64 arithmetic gives them, Sphere::intersection returns
\* Some(adj - sqrt(radius^2 - d2)) exactly when radius^2 > d2 and None otherwise
\* (radius^2 = d2 gives None; the sign of adj is never tested).  In exact terms: a
\* ray whose line cuts the sphere in two points returns Some, one whose line misses
\* it returns None, and the point at the returned distance lies on the sphere.  The
\* example sphere at (0,0,-7), radius 2, seen along (0,0,-1) gives Some(5).
SphereIntersectionContract ==
    SphereReturned =>
        LET cl == VSub[arg.s.center, arg.r.origin]
            adj == Dot[cl, arg.r.direction]
            d2 == FSub[Dot[cl, cl], FMul[adj, adj]]
            r2 == FMul[arg.s.radius, arg.s.radius]
            to == VSub[HitPoint(arg.r, res.val.d), arg.s.center]
        IN  /\ res.val.some <=> FGt[r2, d2]
            /\ ~res.val.some => res.val = None
            /\ res.val.some => res.val.d = FSub[adj, FSqrt[FSub[r2, d2]]]
            /\ Discriminant(arg.q) > 0 => res.val.some
            /\ Discriminant(arg.q) < 0 => ~res.val.some
            /\ res.val.some => Tiny(FSub[Dot[to, to], r2])
            /\ arg = SphereExample => res.val = Some(FromInt[5])

\* the example call has been made and returned Some(5)
SphereExampleReturned ==
    SphereReturned /\ arg = SphereExample /\ res.val = Some(FromInt[5])

\* a sphere behind the origin (adj < 0) is reported, at a negative distance
SphereBehindReturned ==
    /\ SphereReturned /\ res.val.some /\ res.val.d.s = -1
    /\ IDot(ISub(arg.q.center, arg.q.origin), arg.q.v) < 0

\* a ray with radius^2 = d2 in f64 has returned None
SphereTangentReturned ==
    /\ SphereReturned /\ res.val = None
    /\ LET cl == VSub[arg.s.center, arg.r.origin]
           adj == Dot[cl, arg.r.direction]
       IN  FSub[Dot[cl, cl], FMul[adj, adj]] = FMul[arg.s.radius, arg.s.radius]

\* a ray that touches the sphere in one point has returned Some: the rounding of
\* the direction left radius^2 > d2
SphereGrazeReturned ==
    /\ SphereReturned /\ res.val.some
    /\ Discriminant(arg.q) = 0

PlaneReturned == fn = "Plane::intersection" /\ res.done

\* the whole-number data say that denom = normal . direction is beyond 1e-6:
\* with den = 1, denom = denomN / |v| is at least 1 / |v| once denomN >= 1; with
\* den = EpsDen, denom > 1e-6 is denomN > |v|
PlaneDenomAbove(q) ==
    IF q.normal.den = 1 THEN IDot(q.normal.num, q.v) >= 1
    ELSE IDot(q.normal.num, q.v) > 0
            /\ IDot(q.normal.num, q.v) * IDot(q.normal.num, q.v) > IDot(q.v, q.v)

\* the whole-number data say that denom is at most 1e-6
PlaneDenomBelow(q) ==
    \/ IDot(q.normal.num, q.v) <= 0
    \/ /\ q.normal.den = EpsDen
       /\ IDot(q.normal.num, q.v) * IDot(q.normal.num, q.v) < IDot(q.v, q.v)

\* C4: with denom = normal . direction as the f64 arithmetic gives it,
\* Plane::intersection returns None whenever denom <= 1e-6 (perpendicular and
\* back-facing rays included); when denom > 1e-6 it returns Some(distance), with
\* distance = ((point - origin) . normal) / denom, only if that distance is >= 0 and
\* None if it is negative; so every Some(distance) has distance >= 0.  In exact
\* terms: a ray that faces the plane beyond 1e-6 returns Some when the plane lies
\* ahead of the origin and None when it lies behind, and a ray that does not
\* returns None.
PlaneIntersectionContract ==
    PlaneReturned =>
        LET denom == Dot[arg.p.normal, arg.r.direction]
            distance == FDiv[Dot[VSub[arg.p.point, arg.r.origin], arg.p.normal], denom]
            distN == IDot(ISub(arg.q.point, arg.q.origin), arg.q.normal.num)
        IN  /\ ~FGt[denom, Epsilon] => res.val = None
            /\ (FGt[denom, Epsilon] /\ FLess[distance, Zero[1]]) => res.val = None
            /\ (FGt[denom, Epsilon] /\ FGe[distance, Zero[1]]) => res.val = Some(distance)
            /\ res.val.some \/ res.val = None
            /\ PlaneDenomBelow(arg.q) => res.val = None
            /\ (PlaneDenomAbove(arg.q) /\ distN < 0) => res.val = None
            /\ (PlaneDenomAbove(arg.q) /\ distN > 0) => res.val.some
            /\ res.val.some =>
                  /\ FGe[res.val.d, Zero[1]]
                  /\ Tiny(Dot[VSub[HitPoint(arg.r, res.val.d), arg.p.point],
                              arg.p.normal])

\* a ray that meets the plane from behind (denom < 0, the meeting point ahead of
\* the origin) has returned None
PlaneBackFaceReturned ==
    /\ PlaneReturned /\ res.val = None
    /\ IDot(arg.q.normal.num, arg.q.v) < 0
    /\ IDot(ISub(arg.q.point, arg.q.origin), arg.q.normal.num) < 0

\* a ray with 0 < denom <= 1e-6 has returned None
PlaneTinyDenomReturned ==
    /\ PlaneReturned /\ res.val = None
    /\ FGt[Dot[arg.p.normal, arg.r.direction], Zero[1]]
    /\ ~FGt[Dot[arg.p.normal, arg.r.direction], Epsilon]
    /\ IDot(ISub(arg.q.point, arg.q.origin), arg.q.normal.num) >= 0

\* a facing ray whose origin lies in the plane has returned None: the rounding of
\* (point - origin) . normal left a negative distance
PlaneInPlaneReturned ==
    /\ PlaneReturned /\ res.val = None
    /\ PlaneDenomAbove(arg.q)
    /\ IDot(ISub(arg.q.point, arg.q.origin), arg.q.normal.num) = 0

ColorReturned == fn \in {"color_mul_const", "color_mul_color"} /\ res.done

\* C5: for non-negative finite inputs (and for the negative ones enumerated as
\* well) every channel that color_mul_const and color_mul_color can return lies in
\* [0, 255], the colours render hands to rgbf64_to_rgb8 included, so that each 8-bit
\* channel is computed from a value in [0, 255].
ClampInvariant ==
    ColorReturned =>
        \A i \in 1..3 :
            /\ FGe[res.val[i], Zero[1]] /\ FGe[FromInt[ChannelMax], res.val[i]]
            /\ RgbF64ToRgb8(res.val)[i] \in 0..ChannelMax

\* color_mul_const has returned a channel that the clamp cut down to 255
ClampedReturned ==
    /\ fn = "color_mul_const" /\ res.done
    /\ FGt[Scale[arg.color[1], arg.constant], FromInt[ChannelMax]]
    /\ res.val[1] = FromInt[ChannelMax]

\* color_mul_const has returned for arguments that render passes at line 176
RenderColorReturned ==
    /\ fn = "color_mul_const" /\ res.done
    /\ arg \in RenderMulConstArgs
    /\ FGt[res.val[1], Zero[1]]

\* C10: color_mul_color(a, b) is red = clamp(a.r * b.r / 255), green =
\* clamp(a.g * b.g / 255), blue = clamp(a.b * b.g / 255): the blue output uses the
\* green channel of the second colour and does not depend on its blue channel.
\* (clamp(q) is 255 above 255, 0 below 0 and q between them, where a q of -0.0 may
\* come out as -0.0 or as 0.0.)
CrossChannelMultiply ==
    (fn = "color_mul_color" /\ res.done) =>
        LET a == arg.color
            b == arg.color2
            Clamped(q) ==
                IF FGt[q, FromInt[255]] THEN {FromInt[255]}
                ELSE IF FLess[q, FromInt[0]] THEN {FromInt[0]}
                ELSE IF IsZero[q] THEN {q, FromInt[0]}
                ELSE {q}
            Scaled(c, d) == Clamped(FDiv[FMul[c, d], FromInt[255]])
        IN  /\ res.val \in Scaled(a[1], b[1]) \X Scaled(a[2], b[2]) \X Scaled(a[3], b[2])
            /\ ColorMulColor(a, b)
                  = Scaled(a[1], b[1]) \X Scaled(a[2], b[2]) \X Scaled(a[3], b[2])
            /\ \A blue \in SignedVals :
                   /\ res.val \in ColorMulColor(a, <<b[1], b[2], blue>>)
                   /\ ColorMulColor(a, <<b[1], b[2], blue>>) = ColorMulColor(a, b)

\* color_mul_const has returned 0.0 for a channel that is -0.0 before .max(0.0),
\* and can return -0.0 for it as well
EitherZeroReturned ==
    /\ fn = "color_mul_const" /\ res.done
    /\ Scale[arg.color[1], arg.constant] = Zero[-1]
    /\ res.val[1] = Zero[1]
    /\ \E other \in ColorMulConst(arg.color, arg.constant) : other[1] = Zero[-1]

\* color_mul_color has returned a blue channel that differs from a.b * b.b / 255
CrossChannelReturned ==
    /\ fn = "color_mul_color" /\ res.done
    /\ arg.color2[3] # arg.color2[2]
    /\ res.val[3] \notin Clamp(Scale[arg.color[3], arg.color2[3]])

(***************************************************************************)
(* Properties of Scene::render (checked under Spec and SpecFair).          *)
(***************************************************************************)
\* what the object at position i of the list can write for pixel p
WrittenBy(sc, i, p) ==
    LET r == CreatePrime(p[1], p[2], sc)
        hit == Intersection(sc.objects[i], r)
    IN  IF hit.some THEN Shade(sc.objects[i], r, hit.d, sc.light) ELSE {BLACK}

Hits(sc, i, p) == Intersection(sc.objects[i], CreatePrime(p[1], p[2], sc)).some

\* C1: with a non-empty object list every pixel left by render is decided by the
\* last object alone: its shaded colour if the primary ray hits it, the background
\* (70,70,70) if not, whatever earlier objects were hit.
LastObjectWins ==
    (pc = "done" /\ Len(scene.objects) > 0) =>
        \A p \in Pixels(scene) :
            WrittenBy(scene, Len(scene.objects), p) = {image[p]}

\* render has finished a scene in which some pixel's ray hits an earlier object,
\* which would shade it visibly, and misses the last one: the pixel is background
EarlierHitOverwritten ==
    /\ pc = "done" /\ Len(scene.objects) > 1
    /\ \E p \in Pixels(scene) :
          /\ Hits(scene, 1, p)
          /\ BLACK \notin WrittenBy(scene, 1, p)
          /\ ~Hits(scene, Len(scene.objects), p)
          /\ image[p] = BLACK

\* C2: with an empty object list every pixel of the raster render returns has been
\* set to the background colour (70,70,70).
EmptySceneIsBackground ==
    (pc = "done" /\ scene.objects = <<>>) =>
        \A p \in Pixels(scene) : image[p] = BLACK

\* what the code does with an empty list: no pixel is ever written
EmptySceneIsUntouched ==
    (pc = "done" /\ scene.objects = <<>>) =>
        \A p \in Pixels(scene) : image[p] = ZeroPixel

RenderSafe ==
    /\ pc \in {"new", "for_x", "for_y", "for_obj", "done"}
    /\ tests <= scene.width * scene.height * Len(scene.objects)
    /\ pc = "done" => tests = scene.width * scene.height * Len(scene.objects)

\* C7: with a directional light render never reaches the unsupported-light guard
\* and runs to completion, having made exactly width * height * (number of objects)
\* intersection tests, one per (pixel, object) pair, with no early exit.  (The
\* unsupported-light guard is never reached; a println! of line 175 that fails ends
\* render before completion.)
RenderTerminates == []RenderSafe /\ <>(pc = "done")

RasterBefore(p, q) == p[2] < q[2] \/ (p[2] = q[2] /\ p[1] < q[1])
ColumnBefore(p, q) == p[1] < q[1] \/ (p[1] = q[1] /\ p[2] < q[2])

\* every object of a pixel is tested before the next pixel is started
PixelsOneAtATime ==
    /\ pc = "for_obj" =>
          tests = (Len(trace) - 1) * Len(scene.objects) + (oi - 1)
    /\ pc \in {"for_x", "for_y", "done"} =>
          tests = Len(trace) * Len(scene.objects)

\* C8 as stated: pixels are processed in raster (row-major) order, (x1,y1) before
\* (x2,y2) whenever y1 < y2, or y1 = y2 and x1 < x2, one pixel at a time.
RasterOrder ==
    /\ \A i, j \in 1..Len(trace) : RasterBefore(trace[i], trace[j]) => i < j
    /\ PixelsOneAtATime

\* C8 as amended: pixels are processed in column-major order, (x1,y1) before
\* (x2,y2) whenever x1 < x2, or x1 = x2 and y1 < y2; each pixel is started once,
\* and all its objects are tested before the next pixel is started.
ColumnOrder ==
    /\ \A i \in 1..Len(trace) :
          trace[i] = <<(i - 1) \div scene.height, (i - 1) % scene.height>>
    /\ \A i, j \in 1..Len(trace) : ColumnBefore(trace[i], trace[j]) => i < j
    /\ pc = "done" => Len(trace) = scene.width * scene.height
    /\ PixelsOneAtATime

\* render has started pixel (1,0) after pixel (0,1)
ColumnBeforeRow ==
    /\ Len(trace) >= 3
    /\ \E i, j \in 1..Len(trace) :
          i < j /\ trace[i] = <<0, 1>> /\ trace[j] = <<1, 0>>

\* the object loop of the centre pixel is over
CentrePixelDone == x = CentrePixel[1] /\ y > CentrePixel[2]

\* C6: in the render of the scene of test_scene the primary ray of pixel (400,300)
\* intersects the sphere, and the pixel holds the shaded colour, which is not the
\* background (70,70,70).
CentrePixelShaded ==
    CentrePixelDone =>
        /\ Hits(TestScene, 1, CentrePixel)
        /\ WrittenBy(TestScene, 1, CentrePixel) = {image[CentrePixel]}
        /\ image[CentrePixel] # BLACK

\* render has left pixel (400,300) of the test scene, lit: a colour other than the
\* buffer's initial value and the background
CentrePixelLit ==
    /\ scene = TestScene /\ CentrePixel = <<400, 300>>
    /\ CentrePixelDone
    /\ image[CentrePixel] = RgbF64ToRgb8(shaded)
    /\ image[CentrePixel] \notin {ZeroPixel, BLACK}

====
